---------------------------- MODULE Spec2Model ----------------------------
(***************************************************************************)
(* The Adventure Works batch pipeline (src/src/main.py and the three stage *)
(* modules it calls) as a state machine.                                   *)
(*                                                                         *)
(* A directory is a function from the names of the files that exist in it  *)
(* to their content; a table is a sequence of records (rows).  One action  *)
(* models one call made by a stage's main(): it reads its inputs, raises   *)
(* (the run ends with exit code 1) when an input file is absent, and       *)
(* otherwise writes its output file.                                       *)
(*                                                                         *)
(* Numbers: money is an integer; every price of the model is a multiple of *)
(* 10, so that the product by 0.7 is exact.  A missing number (pandas NaN) *)
(* is the value NaN, a missing string is NA.  Means and ratios are exact   *)
(* fractions <<numerator, denominator>> in lowest terms.                   *)
(***************************************************************************)
EXTENDS Integers, Sequences, FiniteSets, TLC

VARIABLES
    bronze,     \* the Data directory: file name -> table read by read_csv
    silver,     \* the silver directory
    gold,       \* the gold directory
    viz,        \* the visualizations directory
    layers,     \* args.layers of this invocation ("none" before argparse)
    pc,         \* the call main.py / a stage's main() makes next
    exitCode,   \* the process's exit code, meaningful when pc = "exit"
    out,        \* what this invocation printed, in order
    written,    \* names of the files this invocation has written
    runs,       \* invocations started so far
    edits,      \* changes the user made to the directories between runs
    last_run    \* the directories as the last completed invocation left them

vars == <<bronze, silver, gold, viz, layers, pc, exitCode, out, written, runs, edits,
          last_run>>

-----------------------------------------------------------------------------
(* Bounds of the model *)

MaxSalesRows == 2   \* rows over the yearly sales files of an input
MaxQuantity == 3    \* largest OrderQuantity of an input row
MaxRuns == 3        \* invocations of main.py in one behaviour
MaxEdits == 1       \* user changes to the directories in one behaviour

-----------------------------------------------------------------------------
(* Values *)

NaN == -1           \* a missing number; every number of the model is >= 0
NA == "<NA>"        \* a missing string
NoMean == <<0, 0>>  \* the mean of no value, and 0 / 0 (NaN)
Inf == <<1, 0>>     \* x / 0 for x > 0

CalendarCsv == "AdventureWorks_Calendar.csv"
CustomersCsv == "AdventureWorks_Customers.csv"
ProductsCsv == "AdventureWorks_Products.csv"
sales_files == <<"AdventureWorks_Sales_2015.csv",
                 "AdventureWorks_Sales_2016.csv",
                 "AdventureWorks_Sales_2017.csv">>
BronzeFiles == {CalendarCsv, CustomersCsv, ProductsCsv} \cup
               {sales_files[i] : i \in 1..Len(sales_files)}

CalendarPq == "AdventureWorks_Calendar.parquet"
CustomersPq == "AdventureWorks_Customers.parquet"
ProductsPq == "AdventureWorks_Products.parquet"
SalesPq == "AdventureWorks_Sales.parquet"
SilverFiles == {CalendarPq, CustomersPq, ProductsPq, SalesPq}

SalesSummaryPq == "sales_summary.parquet"
CustomerInsightsPq == "customer_insights.parquet"
MonthlySalesPq == "monthly_sales.parquet"
GoldFiles == {SalesSummaryPq, CustomerInsightsPq, MonthlySalesPq}

MonthlyPng == "monthly_sales_trend.png"
TopProductsPng == "top_products.png"
SegmentsPng == "customer_segments.png"

LayerChoices == {"bronze_to_silver", "silver_to_gold", "visualize", "all"}

-----------------------------------------------------------------------------
(* Sequences and the pandas operations the stages use *)

Range(s) == {s[i] : i \in 1..Len(s)}

RECURSIVE SumSeq(_)
SumSeq(s) == IF s = <<>> THEN 0 ELSE Head(s) + SumSeq(Tail(s))

RECURSIVE Concat(_)
Concat(ss) == IF ss = <<>> THEN <<>> ELSE Head(ss) \o Concat(Tail(ss))

RECURSIVE Gcd(_, _)
Gcd(a, b) == IF b = 0 THEN a ELSE Gcd(b, a % b)

\* the fraction n/d in lowest terms, d > 0
Frac(n, d) == LET g == Gcd(n, d) IN <<n \div g, d \div g>>

Column(t, c) == [i \in 1..Len(t) |-> t[i][c]]

NotNaN(x) == x # NaN

\* Series.fillna(value) on a column of strings
FillNa(x, value) == IF x = NA THEN value ELSE x

\* a product or difference of two columns' cells: NaN if either is NaN
Mul(a, b) == IF a = NaN \/ b = NaN THEN NaN ELSE a * b
Sub(a, b) == IF a = NaN \/ b = NaN THEN NaN ELSE a - b

\* (mutant) the profit ratio taken for the cost ratio: x * 0.3
MulProfitRatio(x) == IF x = NaN THEN NaN ELSE (x * 3) \div 10

\* x * 0.7
MulCostRatio(x) == IF x = NaN THEN NaN ELSE (x * 7) \div 10

\* a / b in floating point: 0 / 0 and anything with NaN is NaN, no error
Div(a, b) ==
    IF a = NaN \/ b = NaN THEN NoMean
    ELSE IF b = 0 THEN (IF a = 0 THEN NoMean ELSE Inf)
    ELSE Frac(a, b)

\* the aggregations 'sum', 'count' and 'mean' of a column (skipna)
AggSum(col) == SumSeq(SelectSeq(col, NotNaN))
AggCount(col) == Len(SelectSeq(col, NotNaN))
AggMean(col) ==
    IF AggCount(col) = 0 THEN NoMean ELSE Frac(AggSum(col), AggCount(col))

\* left.merge(right, left_on=lk, right_on=rk), how='inner': the left rows in
\* order, each with every right row of the same key
MatchesOf(l, right, lk, rk) ==
    LET hit(r) == r[rk] = l[lk]
        m == SelectSeq(right, hit)
    IN  [j \in 1..Len(m) |-> l @@ m[j]]

MergeInner(left, right, lk, rk) ==
    Concat([i \in 1..Len(left) |-> MatchesOf(left[i], right, lk, rk)])

\* (mutant) how='inner': a left row without a match is dropped
MergeLeftAsInner(left, right, k, nulls) == MergeInner(left, right, k, k)

\* left.merge(right, on=k, how='left'): a left row without a match is kept,
\* the right columns NaN
MergeLeft(left, right, k, nulls) ==
    Concat([i \in 1..Len(left) |->
              LET m == MatchesOf(left[i], right, k, k)
              IN  IF m = <<>> THEN <<left[i] @@ nulls>> ELSE m])

\* sort_values(ascending): the rows of t ordered by keys, one pair of
\* integers per row; rows of equal key stay in their order in t
\* (mutant) the sort columns taken in the other order
LexLessSwapped(a, b) == a[2] < b[2] \/ (a[2] = b[2] /\ a[1] < b[1])

LexLess(a, b) == a[1] < b[1] \/ (a[1] = b[1] /\ a[2] < b[2])

SortRows(t, keys, ascending) ==
    LET n == Len(t)
        less(j, i) == IF ascending THEN LexLess(keys[j], keys[i])
                                   ELSE LexLess(keys[i], keys[j])
        before(j, i) == less(j, i) \/ (keys[j] = keys[i] /\ j < i)
        rank(i) == Cardinality({j \in 1..n : before(j, i)}) + 1
    IN  [p \in 1..n |-> t[CHOOSE i \in 1..n : rank(i) = p]]

\* groupby(icols + scols), dropna=True, sort=True: the key of a row is its
\* integer columns icols followed by its string columns scols
GroupKey(r, icols, scols) ==
    <<[i \in 1..Len(icols) |-> r[icols[i]]], [i \in 1..Len(scols) |-> r[scols[i]]]>>

KeyHasNull(k) ==
    \/ \E i \in 1..Len(k[1]) : k[1][i] = NaN
    \/ \E i \in 1..Len(k[2]) : k[2][i] = NA

KeyPair(k) == <<k[1][1], IF Len(k[1]) > 1 THEN k[1][2] ELSE 0>>

\* the distinct keys without a null, in ascending order.  The integer columns
\* lead every key the stages group by and decide the order (the first column
\* is a unique key of its table, or the key is all integers).
Groups(t, icols, scols) ==
    LET n == Len(t)
        key(i) == GroupKey(t[i], icols, scols)
        first(i) == /\ ~KeyHasNull(key(i))
                    /\ \A j \in 1..(i - 1) : key(j) # key(i)
        idx == SelectSeq([i \in 1..n |-> i], first)
        ks == [p \in 1..Len(idx) |-> key(idx[p])]
    IN  SortRows(ks, [p \in 1..Len(ks) |-> KeyPair(ks[p])], TRUE)

RowsOf(t, icols, scols, k) ==
    LET member(r) == GroupKey(r, icols, scols) = k
    IN  SelectSeq(t, member)

-----------------------------------------------------------------------------
(* bronze_to_silver.py: the four transformations *)

\* Series.dt.year, .month, .day, .quarter of a date yyyymmdd
YearOf(d) == d \div 10000
MonthOf(d) == (d \div 100) % 100
DayOf(d) == d % 100
QuarterOf(d) == ((MonthOf(d) - 1) \div 3) + 1

CalendarRow(r) ==
    [Date |-> r.Date, Year |-> YearOf(r.Date), Month |-> MonthOf(r.Date),
     Day |-> DayOf(r.Date), Quarter |-> QuarterOf(r.Date)]

SilverCalendar(csv) == [i \in 1..Len(csv) |-> CalendarRow(csv[i])]

CustomerRow(r) ==
    [r EXCEPT !.Gender = FillNa(r.Gender, "Unknown"),
              !.MaritalStatus = FillNa(r.MaritalStatus, "Unknown")]

SilverCustomers(csv) == [i \in 1..Len(csv) |-> CustomerRow(csv[i])]

\* (mutant) the names left unfilled
ProductRowUnfilled(r) == r

ProductRow(r) ==
    [r EXCEPT !.ProductName = FillNa(r.ProductName, "Unknown Product"),
              !.ModelName = FillNa(r.ModelName, "Unknown Model")]

SilverProducts(csv) == [i \in 1..Len(csv) |-> ProductRow(csv[i])]

\* the yearly files that exist, read in the order of sales_files
RECURSIVE ReadSales(_, _)
ReadSales(dir, i) ==
    IF i > Len(sales_files) THEN <<>>
    ELSE (IF sales_files[i] \in DOMAIN dir THEN <<dir[sales_files[i]]>> ELSE <<>>)
         \o ReadSales(dir, i + 1)

all_sales_dfs(dir) == ReadSales(dir, 1)

\* product_df[['ProductKey', 'ProductPrice']]
PriceList(products) ==
    [i \in 1..Len(products) |->
        [ProductKey |-> products[i].ProductKey,
         ProductPrice |-> products[i].ProductPrice]]

\* the calculated fields and the final columns of one merged row
SalesRow(m) ==
    LET UnitPrice == m.ProductPrice
        SalesAmount == Mul(m.OrderQuantity, UnitPrice)
        TotalProductCost == MulCostRatio(SalesAmount)
        Profit == Sub(SalesAmount, TotalProductCost)
    IN  [OrderDate |-> m.OrderDate, OrderNumber |-> m.OrderNumber,
         ProductKey |-> m.ProductKey, CustomerKey |-> m.CustomerKey,
         OrderQuantity |-> m.OrderQuantity, UnitPrice |-> UnitPrice,
         SalesAmount |-> SalesAmount, TotalProductCost |-> TotalProductCost,
         Profit |-> Profit, ProfitMargin |-> Div(Profit, SalesAmount)]

\* (mutant) the rows appended to the silver file of the earlier run
SilverSalesAppended(dfs, products) ==
    LET sales_df == Concat(dfs)
        merged_df == MergeLeft(sales_df, PriceList(products), "ProductKey",
                               [ProductPrice |-> NaN])
        earlier == IF SalesPq \in DOMAIN silver THEN silver[SalesPq] ELSE <<>>
    IN  earlier \o [i \in 1..Len(merged_df) |-> SalesRow(merged_df[i])]

SilverSales(dfs, products) ==
    LET sales_df == Concat(dfs)
        merged_df == MergeLeft(sales_df, PriceList(products), "ProductKey",
                               [ProductPrice |-> NaN])
    IN  [i \in 1..Len(merged_df) |-> SalesRow(merged_df[i])]

-----------------------------------------------------------------------------
(* silver_to_gold.py: the three views *)

SalesSummary(sales_df, products_df) ==
    LET icols == <<"ProductKey">>
        scols == <<"ProductName", "ModelName">>
        joined_df == MergeInner(sales_df, products_df, "ProductKey", "ProductKey")
        gs == Groups(joined_df, icols, scols)
        row(k) ==
            LET g == RowsOf(joined_df, icols, scols, k)
            IN  [ProductKey |-> k[1][1], ProductName |-> k[2][1],
                 ModelName |-> k[2][2],
                 TotalQuantity |-> AggSum(Column(g, "OrderQuantity")),
                 TotalSales |-> AggSum(Column(g, "SalesAmount")),
                 AvgUnitPrice |-> AggMean(Column(g, "UnitPrice")),
                 OrderCount |-> AggCount(Column(g, "OrderQuantity"))]
        agg == [p \in 1..Len(gs) |-> row(gs[p])]
    IN  SortRows(agg, [p \in 1..Len(agg) |-> <<agg[p].TotalSales, 0>>], FALSE)

CustomerInsights(sales_df, customers_df) ==
    LET icols == <<"CustomerKey">>
        scols == <<"FirstName", "LastName", "Gender", "MaritalStatus">>
        joined_df == MergeInner(sales_df, customers_df, "CustomerKey", "CustomerKey")
        gs == Groups(joined_df, icols, scols)
        row(k) ==
            LET g == RowsOf(joined_df, icols, scols, k)
            IN  [CustomerKey |-> k[1][1], FirstName |-> k[2][1],
                 LastName |-> k[2][2], Gender |-> k[2][3],
                 MaritalStatus |-> k[2][4],
                 TotalSpend |-> AggSum(Column(g, "SalesAmount")),
                 OrderCount |-> AggCount(Column(g, "OrderQuantity")),
                 AvgOrderValue |-> AggMean(Column(g, "SalesAmount"))]
        agg == [p \in 1..Len(gs) |-> row(gs[p])]
    IN  SortRows(agg, [p \in 1..Len(agg) |-> <<agg[p].TotalSpend, 0>>], FALSE)

MonthlySales(sales_df, calendar_df) ==
    LET icols == <<"Year", "Month">>
        joined_df == MergeInner(sales_df, calendar_df, "OrderDate", "Date")
        gs == Groups(joined_df, icols, <<>>)
        row(k) ==
            LET g == RowsOf(joined_df, icols, <<>>, k)
            IN  [Year |-> k[1][1], Month |-> k[1][2],
                 MonthlySales |-> AggSum(Column(g, "SalesAmount")),
                 OrderCount |-> AggCount(Column(g, "OrderQuantity")),
                 AvgOrderValue |-> AggMean(Column(g, "SalesAmount"))]
        agg == [p \in 1..Len(gs) |-> row(gs[p])]
    IN  SortRows(agg, [p \in 1..Len(agg) |-> <<agg[p].Year, agg[p].Month>>], TRUE)

-----------------------------------------------------------------------------
(* visualize.py: what each chart reads of its gold view *)

\* the chart's x and y series
MonthlyTrend(monthly_sales_df) ==
    [i \in 1..Len(monthly_sales_df) |->
        <<monthly_sales_df[i].Year, monthly_sales_df[i].Month,
          monthly_sales_df[i].MonthlySales>>]

\* sort_values('TotalSales', ascending=False).head(10)
TopN == 10
TopProducts(sales_summary_df) ==
    LET t == SortRows(sales_summary_df,
                      [i \in 1..Len(sales_summary_df) |->
                          <<sales_summary_df[i].TotalSales, 0>>], FALSE)
    IN  SubSeq(t, 1, IF Len(t) < TopN THEN Len(t) ELSE TopN)

\* pd.qcut(TotalSpend, q=4): four times the five bin edges, the quantiles
\* 0, 1/4, .., 1 of the column by linear interpolation; <<>> for no row
QuantileBins == 4
BinEdges(col) ==
    LET n == Len(col)
        x == SortRows(col, [i \in 1..n |-> <<col[i], 0>>], TRUE)
        edge(k) == LET pos == k * (n - 1)
                       i == (pos \div QuantileBins) + 1
                       r == pos % QuantileBins
                   IN  IF r = 0 THEN QuantileBins * x[i]
                       ELSE QuantileBins * x[i] + r * (x[i + 1] - x[i])
    IN  IF n = 0 THEN <<>> ELSE [k \in 1..(QuantileBins + 1) |-> edge(k - 1)]

\* qcut raises ValueError unless the bin edges are unique
QcutRaises(col) ==
    LET e == BinEdges(col)
    IN  Cardinality(Range(e)) < QuantileBins + 1

-----------------------------------------------------------------------------
(* main.py *)

StageOrder == <<"bronze_to_silver", "silver_to_gold", "visualize">>

FirstCall(stage) ==
    CASE stage = "bronze_to_silver" -> "process_calendar_data"
      [] stage = "silver_to_gold" -> "create_sales_summary"
      [] stage = "visualize" -> "create_monthly_sales_trend"

Banner(stage) ==
    CASE stage = "bronze_to_silver" -> "Running Bronze to Silver Layer Transformation"
      [] stage = "silver_to_gold" -> "Running Silver to Gold Layer Transformation"
      [] stage = "visualize" -> "Creating Visualizations"

Completed == "Data Pipeline Completed Successfully"
BronzeDone == "All bronze data processed to silver layer successfully"
Traceback == "Traceback (most recent call last)"

\* (mutant) every stage runs whatever the selector
SelectedAlways(sel, stage) == TRUE

\* if args.layers == 'all' or args.layers == stage
Selected(sel, stage) == sel = "all" \/ sel = stage

\* the first selected stage after stage number i, 0 when there is none
NextStage(sel, i) ==
    LET later == {j \in (i + 1)..Len(StageOrder) : Selected(sel, StageOrder[j])}
    IN  IF later = {} THEN 0 ELSE CHOOSE j \in later : \A k \in later : j <= k

\* stage number i returned (i = 0: argparse returned): main goes on to the next
\* selected stage, or to its last print
Proceed(i, printed) ==
    LET j == NextStage(layers', i)
    IN  IF j = 0
        THEN pc' = "completed" /\ out' = printed
        ELSE pc' = FirstCall(StageOrder[j])
             /\ out' = Append(printed, Banner(StageOrder[j]))

\* (mutant) main catches the exception, reports it and goes on to its last print
RaiseCaught ==
    /\ pc' = "completed"
    /\ exitCode' = exitCode
    /\ out' = Append(out, Traceback)

\* an exception nobody catches: the interpreter prints the traceback and exits 1
Raise ==
    /\ pc' = "exit"
    /\ exitCode' = 1
    /\ out' = Append(out, Traceback)

\* python main.py --layers sel
Start(sel) ==
    /\ pc = "idle"
    /\ layers' = sel
    /\ Proceed(0, <<"Running layers: " \o sel>>)
    /\ runs' = runs + 1
    /\ UNCHANGED <<bronze, silver, gold, viz, exitCode, written, edits, last_run>>

Write(f) == written' = written \cup {f}

process_calendar_data ==
    /\ pc = "process_calendar_data"
    /\ IF CalendarCsv \notin DOMAIN bronze
       THEN Raise /\ UNCHANGED <<silver, written>>
       ELSE /\ silver' = (CalendarPq :> SilverCalendar(bronze[CalendarCsv])) @@ silver
            /\ Write(CalendarPq)
            /\ pc' = "process_customer_data"
            /\ out' = Append(out, "Calendar data processed")
            /\ UNCHANGED exitCode
    /\ UNCHANGED <<bronze, gold, viz, layers, runs, edits, last_run>>

\* (mutant) a missing customer file is skipped, as missing sales files are
process_customer_data_skip ==
    /\ pc = "process_customer_data"
    /\ IF CustomersCsv \notin DOMAIN bronze
       THEN /\ pc' = "process_product_data"
            /\ out' = Append(out, "No customer data found")
            /\ UNCHANGED <<silver, written, exitCode>>
       ELSE /\ silver' = (CustomersPq :> SilverCustomers(bronze[CustomersCsv])) @@ silver
            /\ Write(CustomersPq)
            /\ pc' = "process_product_data"
            /\ out' = Append(out, "Customer data processed")
            /\ UNCHANGED exitCode
    /\ UNCHANGED <<bronze, gold, viz, layers, runs, edits, last_run>>

process_customer_data ==
    /\ pc = "process_customer_data"
    /\ IF CustomersCsv \notin DOMAIN bronze
       THEN Raise /\ UNCHANGED <<silver, written>>
       ELSE /\ silver' = (CustomersPq :> SilverCustomers(bronze[CustomersCsv])) @@ silver
            /\ Write(CustomersPq)
            /\ pc' = "process_product_data"
            /\ out' = Append(out, "Customer data processed")
            /\ UNCHANGED exitCode
    /\ UNCHANGED <<bronze, gold, viz, layers, runs, edits, last_run>>

process_product_data ==
    /\ pc = "process_product_data"
    /\ IF ProductsCsv \notin DOMAIN bronze
       THEN Raise /\ UNCHANGED <<silver, written>>
       ELSE /\ silver' = (ProductsPq :> SilverProducts(bronze[ProductsCsv])) @@ silver
            /\ Write(ProductsPq)
            /\ pc' = "process_sales_data"
            /\ out' = Append(out, "Product data processed")
            /\ UNCHANGED exitCode
    /\ UNCHANGED <<bronze, gold, viz, layers, runs, edits, last_run>>

\* process_sales_data and the print that ends bronze_to_silver.main
process_sales_data ==
    /\ pc = "process_sales_data"
    /\ LET dfs == all_sales_dfs(bronze)
       IN  IF dfs # <<>>
           THEN IF ProductsCsv \notin DOMAIN bronze
                THEN Raise /\ UNCHANGED <<silver, written, layers>>
                ELSE /\ silver' = (SalesPq :> SilverSales(dfs, bronze[ProductsCsv]))
                                  @@ silver
                     /\ Write(SalesPq)
                     /\ UNCHANGED <<exitCode, layers>>
                     /\ Proceed(1, out \o <<"Sales data processed", BronzeDone>>)
           ELSE /\ UNCHANGED <<silver, written, exitCode, layers>>
                /\ Proceed(1, out \o <<"No sales data found", BronzeDone>>)
    /\ UNCHANGED <<bronze, gold, viz, runs, edits, last_run>>

create_sales_summary ==
    /\ pc = "create_sales_summary"
    /\ IF SalesPq \notin DOMAIN silver \/ ProductsPq \notin DOMAIN silver
       THEN Raise /\ UNCHANGED <<gold, written>>
       ELSE /\ gold' = (SalesSummaryPq :>
                            SalesSummary(silver[SalesPq], silver[ProductsPq])) @@ gold
            /\ Write(SalesSummaryPq)
            /\ pc' = "create_customer_insights"
            /\ out' = Append(out, "Sales summary created successfully")
            /\ UNCHANGED exitCode
    /\ UNCHANGED <<bronze, silver, viz, layers, runs, edits, last_run>>

\* (mutant) a missing input is taken for an empty one
create_customer_insights_empty ==
    /\ pc = "create_customer_insights"
    /\ LET read(f) == IF f \in DOMAIN silver THEN silver[f] ELSE <<>>
       IN  gold' = (CustomerInsightsPq :>
                       CustomerInsights(read(SalesPq), read(CustomersPq))) @@ gold
    /\ Write(CustomerInsightsPq)
    /\ pc' = "create_time_series_analysis"
    /\ out' = Append(out, "Customer insights created successfully")
    /\ UNCHANGED exitCode
    /\ UNCHANGED <<bronze, silver, viz, layers, runs, edits, last_run>>

create_customer_insights ==
    /\ pc = "create_customer_insights"
    /\ IF CustomersPq \notin DOMAIN silver \/ SalesPq \notin DOMAIN silver
       THEN Raise /\ UNCHANGED <<gold, written>>
       ELSE /\ gold' = (CustomerInsightsPq :>
                            CustomerInsights(silver[SalesPq], silver[CustomersPq]))
                       @@ gold
            /\ Write(CustomerInsightsPq)
            /\ pc' = "create_time_series_analysis"
            /\ out' = Append(out, "Customer insights created successfully")
            /\ UNCHANGED exitCode
    /\ UNCHANGED <<bronze, silver, viz, layers, runs, edits, last_run>>

create_time_series_analysis ==
    /\ pc = "create_time_series_analysis"
    /\ IF SalesPq \notin DOMAIN silver \/ CalendarPq \notin DOMAIN silver
       THEN Raise /\ UNCHANGED <<gold, written, layers>>
       ELSE /\ gold' = (MonthlySalesPq :>
                            MonthlySales(silver[SalesPq], silver[CalendarPq])) @@ gold
            /\ Write(MonthlySalesPq)
            /\ UNCHANGED <<exitCode, layers>>
            /\ Proceed(2, Append(out, "Time series analysis created successfully"))
    /\ UNCHANGED <<bronze, silver, viz, runs, edits, last_run>>

create_monthly_sales_trend ==
    /\ pc = "create_monthly_sales_trend"
    /\ IF MonthlySalesPq \notin DOMAIN gold
       THEN Raise /\ UNCHANGED <<viz, written>>
       ELSE /\ viz' = (MonthlyPng :> MonthlyTrend(gold[MonthlySalesPq])) @@ viz
            /\ Write(MonthlyPng)
            /\ pc' = "create_top_products_chart"
            /\ out' = Append(out, "Monthly sales trend visualization saved")
            /\ UNCHANGED exitCode
    /\ UNCHANGED <<bronze, silver, gold, layers, runs, edits, last_run>>

create_top_products_chart ==
    /\ pc = "create_top_products_chart"
    /\ IF SalesSummaryPq \notin DOMAIN gold
       THEN Raise /\ UNCHANGED <<viz, written>>
       ELSE /\ viz' = (TopProductsPng :> TopProducts(gold[SalesSummaryPq])) @@ viz
            /\ Write(TopProductsPng)
            /\ pc' = "create_customer_segments"
            /\ out' = Append(out, "Top products visualization saved")
            /\ UNCHANGED exitCode
    /\ UNCHANGED <<bronze, silver, gold, layers, runs, edits, last_run>>

\* create_customer_segments and the print that ends visualize.main
create_customer_segments ==
    /\ pc = "create_customer_segments"
    /\ IF CustomerInsightsPq \notin DOMAIN gold
       THEN Raise /\ UNCHANGED <<viz, written, layers>>
       ELSE LET spend == Column(gold[CustomerInsightsPq], "TotalSpend")
            IN  IF QcutRaises(spend)
                THEN Raise /\ UNCHANGED <<viz, written, layers>>
                ELSE /\ viz' = (SegmentsPng :> BinEdges(spend)) @@ viz
                     /\ Write(SegmentsPng)
                     /\ UNCHANGED <<exitCode, layers>>
                     /\ Proceed(3, out \o <<"Customer segments visualization saved",
                                            "All visualizations created successfully">>)
    /\ UNCHANGED <<bronze, silver, gold, runs, edits, last_run>>

\* the last print of main; the interpreter exits 0
Finish ==
    /\ pc = "completed"
    /\ out' = Append(out, Completed)
    /\ pc' = "exit"
    /\ exitCode' = 0
    /\ last_run' = [run |-> runs, layers |-> layers, bronze |-> bronze,
                    silver |-> silver, gold |-> gold]
    /\ UNCHANGED <<bronze, silver, gold, viz, layers, written, runs, edits>>

-----------------------------------------------------------------------------
(* The user, between two invocations *)

\* the user invokes main.py again
Restart ==
    /\ pc = "exit"
    /\ runs < MaxRuns
    /\ pc' = "idle"
    /\ layers' = "none"
    /\ out' = <<>>
    /\ written' = {}
    /\ UNCHANGED <<bronze, silver, gold, viz, exitCode, runs, edits, last_run>>

Without(dir, f) == [g \in DOMAIN dir \ {f} |-> dir[g]]

\* the user deletes an input file
RemoveBronze(f) ==
    /\ pc = "exit"
    /\ edits < MaxEdits
    /\ f \in DOMAIN bronze
    /\ bronze' = Without(bronze, f)
    /\ edits' = edits + 1
    /\ UNCHANGED <<silver, gold, viz, layers, pc, exitCode, out, written, runs, last_run>>

\* the user deletes a silver file
RemoveSilver(f) ==
    /\ pc = "exit"
    /\ edits < MaxEdits
    /\ f \in DOMAIN silver
    /\ silver' = Without(silver, f)
    /\ edits' = edits + 1
    /\ UNCHANGED <<bronze, gold, viz, layers, pc, exitCode, out, written, runs, last_run>>

\* the user drops the last row of an input file
TruncateBronze(f) ==
    /\ pc = "exit"
    /\ edits < MaxEdits
    /\ f \in DOMAIN bronze
    /\ bronze[f] # <<>>
    /\ bronze' = [bronze EXCEPT ![f] = SubSeq(@, 1, Len(@) - 1)]
    /\ edits' = edits + 1
    /\ UNCHANGED <<silver, gold, viz, layers, pc, exitCode, out, written, runs, last_run>>

-----------------------------------------------------------------------------
(* Inputs *)

Dates == {20151231, 20160101, 20160115, 20160201}

BaseCalendar == <<[Date |-> 20151231], [Date |-> 20160101], [Date |-> 20160115]>>

BaseCustomers ==
    <<[CustomerKey |-> 1, FirstName |-> "Ann", LastName |-> "Lee",
       Gender |-> "F", MaritalStatus |-> NA],
      [CustomerKey |-> 2, FirstName |-> "Bo", LastName |-> "Roy",
       Gender |-> NA, MaritalStatus |-> "S"]>>

BaseProducts ==
    <<[ProductKey |-> 1, ProductName |-> "Helmet", ModelName |-> NA,
       ProductPrice |-> 10],
      [ProductKey |-> 2, ProductName |-> NA, ModelName |-> "Sport",
       ProductPrice |-> 20]>>

SaleOf(date, number, product, customer, quantity) ==
    [OrderDate |-> date, OrderNumber |-> number, ProductKey |-> product,
     CustomerKey |-> customer, OrderQuantity |-> quantity]

BaseBronze ==
    (CalendarCsv :> BaseCalendar) @@ (CustomersCsv :> BaseCustomers)
    @@ (ProductsCsv :> BaseProducts)
    @@ (sales_files[1] :> <<SaleOf(20151231, "SO1", 1, 1, 2)>>)
    @@ (sales_files[2] :> <<SaleOf(20160101, "SO2", 2, 2, 1)>>)
    @@ (sales_files[3] :> <<SaleOf(20160115, "SO3", 1, 2, 1)>>)

Restrict(dir, files) == [f \in files |-> dir[f]]

\* no invocation has completed yet
NoRun == [run |-> 0, layers |-> "none", bronze |-> <<>>, silver |-> <<>>,
          gold |-> <<>>]

\* before the first invocation: empty output directories
Fresh ==
    /\ silver = <<>> /\ gold = <<>> /\ viz = <<>>
    /\ layers = "none" /\ pc = "idle" /\ exitCode = 0
    /\ out = <<>> /\ written = {} /\ runs = 0 /\ edits = 0
    /\ last_run = NoRun

\* a Data directory holding any of the input files
Init ==
    /\ bronze \in {Restrict(BaseBronze, fs) : fs \in SUBSET BronzeFiles}
    /\ Fresh

RunStep ==
    \/ \E sel \in LayerChoices : Start(sel)
    \/ process_calendar_data
    \/ process_customer_data
    \/ process_product_data
    \/ process_sales_data
    \/ create_sales_summary
    \/ create_customer_insights
    \/ create_time_series_analysis
    \/ create_monthly_sales_trend
    \/ create_top_products_chart
    \/ create_customer_segments
    \/ Finish

Next ==
    \/ RunStep
    \/ Restart
    \/ \E f \in BronzeFiles : RemoveBronze(f)
    \/ \E f \in SilverFiles : RemoveSilver(f)
    \/ \E f \in BronzeFiles : TruncateBronze(f)

Spec == Init /\ [][Next]_vars

-----------------------------------------------------------------------------
(* Inputs of the sales summary: product tables and sales rows *)

SeqsUpTo(S, n) == UNION {[1..k -> S] : k \in 0..n}

ProductKeys == {1, 2}
Prices == {NaN, 0, 10}

\* ProductKey is unique: at most one row per key, names and price present or not
ProductTables ==
    LET first == {<<>>} \cup
                 {<<[ProductKey |-> 1, ProductName |-> n, ModelName |-> m,
                     ProductPrice |-> p]>> :
                     n \in {NA, "Helmet"}, m \in {NA, "Sport"}, p \in Prices}
        second == {<<>>} \cup
                  {<<[ProductKey |-> 2, ProductName |-> "Gloves",
                      ModelName |-> "Road", ProductPrice |-> p]>> : p \in Prices}
    IN  {a \o c : a \in first, c \in second}

ProductSales ==
    SeqsUpTo({SaleOf(20151231, "SO1", k, 1, q) :
                 k \in ProductKeys, q \in 1..MaxQuantity}, MaxSalesRows)

InitSummary ==
    /\ bronze \in {(ProductsCsv :> t) @@ (sales_files[1] :> s)
                   @@ Restrict(BaseBronze, {CalendarCsv, CustomersCsv}) :
                       t \in ProductTables, s \in ProductSales}
    /\ Fresh

SpecSummary == InitSummary /\ [][RunStep]_vars

\* sum of f[i] over the indices i in S
SumAt(f, S) == SumSeq([i \in 1..Len(f) |-> IF i \in S THEN f[i] ELSE 0])

\* the sales rows the inner join on ProductKey keeps (ProductKey is unique in
\* the product table: each kept row appears once), and those of one product
JoinedSales == {i \in 1..Len(silver[SalesPq]) :
                  \E j \in 1..Len(silver[ProductsPq]) :
                      silver[ProductsPq][j].ProductKey = silver[SalesPq][i].ProductKey}
JoinedSalesOf(k) == {i \in JoinedSales : silver[SalesPq][i].ProductKey = k}

\* a missing amount counts as nothing in a sum
Amount(x) == IF x = NaN THEN 0 ELSE x

\* C1: once create_sales_summary has written the view, it has exactly one row
\* per product with a sales row in the inner join on ProductKey; that row's
\* TotalQuantity is the sum of the product's joined OrderQuantity, TotalSales
\* the sum of their SalesAmount, OrderCount their number; the TotalQuantity of
\* all rows add up to the OrderQuantity of the join; rows are non-increasing
\* by TotalSales; and the two example rows give 5, 50, 10, 2.
C1_SalesSummary ==
    SalesSummaryPq \in written =>
        LET v == gold[SalesSummaryPq]
            sales == silver[SalesPq]
            qty == Column(sales, "OrderQuantity")
            amt == [i \in 1..Len(sales) |-> Amount(sales[i].SalesAmount)]
            keys == {sales[i].ProductKey : i \in JoinedSales}
        IN  /\ \A k \in keys :
                  Cardinality({p \in 1..Len(v) : v[p].ProductKey = k}) = 1
            /\ \A p \in 1..Len(v) :
                  /\ v[p].ProductKey \in keys
                  /\ v[p].TotalQuantity = SumAt(qty, JoinedSalesOf(v[p].ProductKey))
                  /\ v[p].TotalSales = SumAt(amt, JoinedSalesOf(v[p].ProductKey))
                  /\ v[p].OrderCount = Cardinality(JoinedSalesOf(v[p].ProductKey))
            /\ SumSeq(Column(v, "TotalQuantity")) = SumAt(qty, JoinedSales)
            /\ \A p \in 1..(Len(v) - 1) : v[p].TotalSales >= v[p + 1].TotalSales
            /\ (/\ qty = <<2, 3>>
                /\ \A i \in 1..2 : sales[i].ProductKey = 1 /\ sales[i].UnitPrice = 10)
               => /\ Len(v) = 1
                  /\ v[1].TotalQuantity = 5 /\ v[1].TotalSales = 50
                  /\ v[1].AvgUnitPrice = <<10, 1>> /\ v[1].OrderCount = 2

\* the example of C1 has been aggregated
C1_Witness ==
    /\ SalesSummaryPq \in written
    /\ Column(silver[SalesPq], "OrderQuantity") = <<2, 3>>
    /\ Column(silver[SalesPq], "UnitPrice") = <<10, 10>>
    /\ Column(gold[SalesSummaryPq], "OrderCount") = <<2>>

\* C4: every row of the silver sales table written by process_sales_data has
\* SalesAmount = OrderQuantity * UnitPrice (missing when the price is),
\* TotalProductCost = 0.7 * SalesAmount, Profit = SalesAmount -
\* TotalProductCost, ProfitMargin = Profit / SalesAmount, and a missing
\* ProfitMargin when SalesAmount is 0 or missing; the table was written, so
\* nothing was raised.
C4_SalesMetrics ==
    SalesPq \in written =>
        \A i \in 1..Len(silver[SalesPq]) :
            LET r == silver[SalesPq][i]
            IN  IF r.UnitPrice = NaN
                THEN /\ r.SalesAmount = NaN /\ r.TotalProductCost = NaN
                     /\ r.Profit = NaN /\ r.ProfitMargin = NoMean
                ELSE /\ r.SalesAmount = r.OrderQuantity * r.UnitPrice
                     /\ 10 * r.TotalProductCost = 7 * r.SalesAmount
                     /\ r.Profit = r.SalesAmount - r.TotalProductCost
                     /\ IF r.SalesAmount = 0
                        THEN r.ProfitMargin = NoMean
                        ELSE /\ r.ProfitMargin[2] > 0
                             /\ r.ProfitMargin[1] * r.SalesAmount
                                = r.Profit * r.ProfitMargin[2]

\* a written table with a row of amount 0 and a row with a positive amount
C4_Witness ==
    /\ SalesPq \in written
    /\ \E i, j \in 1..Len(silver[SalesPq]) :
          /\ silver[SalesPq][i].SalesAmount = 0
          /\ silver[SalesPq][i].ProfitMargin = NoMean
          /\ silver[SalesPq][j].SalesAmount > 0
          /\ silver[SalesPq][j].ProfitMargin = <<3, 10>>

-----------------------------------------------------------------------------
(* Inputs of the customer insights: customer tables and sales rows *)

CustomerKeys == {1, 2}

\* CustomerKey is unique: at most one row per key
CustomerTables ==
    LET first == {<<>>} \cup
                 {<<[CustomerKey |-> 1, FirstName |-> f, LastName |-> l,
                     Gender |-> g, MaritalStatus |-> m]>> :
                     f \in {NA, "Ann"}, l \in {NA, "Lee"}, g \in {NA, "F"},
                     m \in {NA, "M"}}
        second == {<<>>, <<BaseCustomers[2]>>}
    IN  {a \o c : a \in first, c \in second}

CustomerSales ==
    SeqsUpTo({SaleOf(20151231, "SO1", 1, c, q) :
                 c \in CustomerKeys, q \in 1..MaxQuantity}, MaxSalesRows)

InitCustomers ==
    /\ bronze \in {(CustomersCsv :> t) @@ (sales_files[1] :> s)
                   @@ Restrict(BaseBronze, {CalendarCsv, ProductsCsv}) :
                       t \in CustomerTables, s \in CustomerSales}
    /\ Fresh

SpecCustomers == InitCustomers /\ [][RunStep]_vars

SalesOfCustomer(c) ==
    {i \in 1..Len(silver[SalesPq]) : silver[SalesPq][i].CustomerKey = c}

\* C2 (as claimed): once create_customer_insights has written the view, every
\* customer of the silver customer table with a sales row has a row in it
\* whose TotalSpend is the sum of the SalesAmount of the customer's sales
\* rows, also when FirstName or LastName is missing; every row of the view
\* is such a row; rows are non-increasing by TotalSpend.
C2_CustomerInsights ==
    CustomerInsightsPq \in written =>
        LET v == gold[CustomerInsightsPq]
            sales == silver[SalesPq]
            amt == [i \in 1..Len(sales) |-> Amount(sales[i].SalesAmount)]
            known == {silver[CustomersPq][j].CustomerKey :
                         j \in 1..Len(silver[CustomersPq])}
            buyers == {c \in known : SalesOfCustomer(c) # {}}
        IN  /\ \A c \in buyers : \E p \in 1..Len(v) : v[p].CustomerKey = c
            /\ \A p \in 1..Len(v) :
                  /\ v[p].CustomerKey \in buyers
                  /\ v[p].TotalSpend = SumAt(amt, SalesOfCustomer(v[p].CustomerKey))
            /\ \A p \in 1..(Len(v) - 1) : v[p].TotalSpend >= v[p + 1].TotalSpend

-----------------------------------------------------------------------------
(* Inputs of the monthly sales: calendars and sales rows *)

\* the calendars: any of the dates, each once, in ascending order
RECURSIVE Ascending(_)
Ascending(S) ==
    IF S = {} THEN <<>>
    ELSE LET m == CHOOSE x \in S : \A y \in S : x <= y
         IN  <<m>> \o Ascending(S \ {m})

CalendarTables ==
    {[i \in 1..Cardinality(S) |-> [Date |-> Ascending(S)[i]]] : S \in SUBSET Dates}

DatedSales ==
    SeqsUpTo({SaleOf(d, n, 1, 1, MaxQuantity) : d \in Dates, n \in {"SO1", "SO2"}},
             MaxSalesRows)

InitMonthly ==
    /\ bronze \in {(CalendarCsv :> t) @@ (sales_files[1] :> s)
                   @@ Restrict(BaseBronze, {CustomersCsv, ProductsCsv}) :
                       t \in CalendarTables, s \in DatedSales}
    /\ Fresh

SpecMonthly == InitMonthly /\ [][RunStep]_vars

\* the calendar rows of a sales row's OrderDate (Date is unique: at most one)
CalendarOf(i) ==
    {j \in 1..Len(silver[CalendarPq]) :
        silver[CalendarPq][j].Date = silver[SalesPq][i].OrderDate}
JoinedDated == {i \in 1..Len(silver[SalesPq]) : CalendarOf(i) # {}}
MonthOfSale(i) ==
    LET c == silver[CalendarPq][CHOOSE j \in CalendarOf(i) : TRUE]
    IN  <<c.Year, c.Month>>

\* C3: once create_time_series_analysis has written the view, it has exactly
\* one row per (Year, Month) of the inner join of sales and calendar on
\* OrderDate = Date, the rows are strictly ascending by (Year, Month), and a
\* row's OrderCount is the number of joined rows of its month.
C3_MonthlySales ==
    MonthlySalesPq \in written =>
        LET v == gold[MonthlySalesPq]
            months == {MonthOfSale(i) : i \in JoinedDated}
            ym(p) == <<v[p].Year, v[p].Month>>
        IN  /\ \A m \in months : Cardinality({p \in 1..Len(v) : ym(p) = m}) = 1
            /\ \A p \in 1..Len(v) :
                  /\ ym(p) \in months
                  /\ v[p].OrderCount
                     = Cardinality({i \in JoinedDated : MonthOfSale(i) = ym(p)})
            /\ \A p \in 1..(Len(v) - 1) :
                  \/ v[p].Year < v[p + 1].Year
                  \/ v[p].Year = v[p + 1].Year /\ v[p].Month < v[p + 1].Month

\* two joined rows of one order number, on two days of a month, count as 2
C3_Witness ==
    /\ MonthlySalesPq \in written
    /\ Column(silver[SalesPq], "OrderNumber") = <<"SO1", "SO1">>
    /\ Column(silver[SalesPq], "OrderDate") = <<20160101, 20160115>>
    /\ Column(gold[MonthlySalesPq], "OrderCount") = <<2>>

-----------------------------------------------------------------------------
(* The stages' handling of missing files, and main's sequencing *)

YearlyPresent == {i \in 1..Len(sales_files) : sales_files[i] \in DOMAIN bronze}

\* C5 (as claimed): the step of process_sales_data, when a yearly file exists,
\* writes the silver sales file with one row per row of the files that exist
\* and raises nothing; when no yearly file exists it ends in an error.
C5_SalesLoading ==
    [][pc = "process_sales_data" =>
          IF YearlyPresent # {}
          THEN /\ SalesPq \in written'
               /\ Len(silver'[SalesPq])
                  = SumSeq([i \in 1..Len(sales_files) |->
                               IF i \in YearlyPresent
                               THEN Len(bronze[sales_files[i]]) ELSE 0])
               /\ ~(pc' = "exit" /\ exitCode' = 1)
          ELSE pc' = "exit" /\ exitCode' = 1]_vars

\* C6 (as claimed): when bronze_to_silver.main has printed its last line, this
\* invocation has written each of the four silver files, from the input files
\* as they are.
C6_FullRebuild ==
    (BronzeDone \in Range(out) /\ pc # "exit") =>
        /\ SilverFiles \subseteq written
        /\ silver[CalendarPq] = SilverCalendar(bronze[CalendarCsv])
        /\ silver[CustomersPq] = SilverCustomers(bronze[CustomersCsv])
        /\ silver[ProductsPq] = SilverProducts(bronze[ProductsCsv])
        /\ silver[SalesPq] = SilverSales(all_sales_dfs(bronze), bronze[ProductsCsv])

Last(s) == s[Len(s)]
Banners == {Banner(StageOrder[i]) : i \in 1..Len(StageOrder)}
IsBanner(line) == line \in Banners
Occurrences(s, x) == Cardinality({i \in 1..Len(s) : s[i] = x})

\* C7: once a stage has raised, the traceback is the last thing the invocation
\* printed (no later stage was started, nothing was retried or continued),
\* the completion message was not printed, and the process has ended with
\* exit code 1; an invocation that ended with exit code 0 raised nothing.
C7_FailurePropagation ==
    /\ Traceback \in Range(out) =>
          /\ pc = "exit" /\ exitCode = 1
          /\ Last(out) = Traceback
          /\ Occurrences(out, Traceback) = 1
          /\ Completed \notin Range(out)
    /\ \A b \in Banners : Occurrences(out, b) <= 1
    /\ (pc = "exit" /\ exitCode = 0) =>
          Traceback \notin Range(out) /\ Last(out) = Completed

\* the silver-to-gold stage of a run of all layers has raised
C7_Witness ==
    /\ layers = "all" /\ pc = "exit" /\ exitCode = 1
    /\ Last(out) = Traceback
    /\ Banner("silver_to_gold") \in Range(out)
    /\ Banner("visualize") \notin Range(out)

\* the files a stage writes, and the last line it prints when it returns
FilesOf(stage) ==
    CASE stage = "bronze_to_silver" -> SilverFiles
      [] stage = "silver_to_gold" -> GoldFiles
      [] stage = "visualize" -> {MonthlyPng, TopProductsPng, SegmentsPng}
LastLineOf(stage) ==
    CASE stage = "bronze_to_silver" -> BronzeDone
      [] stage = "silver_to_gold" -> "Time series analysis created successfully"
      [] stage = "visualize" -> "All visualizations created successfully"

IsPrefix(s, t) == Len(s) <= Len(t) /\ s = SubSeq(t, 1, Len(s))

\* C8: the stages an invocation has started are, in order, the first ones of
\* the stages its selector names (one stage, or all three in the order
\* bronze-to-silver, silver-to-gold, visualize), all of them once it has
\* completed; it writes files of those stages only; and a stage is started
\* right after the preceding one printed its last line.
C8_StageOrder ==
    LET plan == IF layers = "all" THEN StageOrder
                ELSE IF layers = "none" THEN <<>> ELSE <<layers>>
        started == SelectSeq(out, IsBanner)
    IN  /\ IsPrefix(started, [i \in 1..Len(plan) |-> Banner(plan[i])])
        /\ written \subseteq UNION {FilesOf(plan[i]) : i \in 1..Len(started)}
        /\ Completed \in Range(out) => Len(started) = Len(plan)
        /\ \A i \in 2..Len(out) :
              (IsBanner(out[i]) /\ out[i] # Banner(plan[1])) =>
                  \E k \in 1..(Len(plan) - 1) :
                      /\ out[i] = Banner(plan[k + 1])
                      /\ out[i - 1] = LastLineOf(plan[k])

\* an invocation with the default selector has run the three stages
C8_Witness ==
    /\ layers = "all" /\ pc = "exit" /\ exitCode = 0
    /\ SelectSeq(out, IsBanner) = [i \in 1..3 |-> Banner(StageOrder[i])]
    /\ SegmentsPng \in written

\* C9: the step of process_customer_data without the customer input file
\* ends the invocation in an error and leaves the silver customer file as it
\* was (absent, or the earlier version); the silver calendar file has been
\* written by this invocation, the product and sales files have not.
C9_MissingCustomers ==
    [][(pc = "process_customer_data" /\ CustomersCsv \notin DOMAIN bronze) =>
          /\ pc' = "exit" /\ exitCode' = 1
          /\ (CustomersPq \in DOMAIN silver') = (CustomersPq \in DOMAIN silver)
          /\ CustomersPq \in DOMAIN silver => silver'[CustomersPq] = silver[CustomersPq]
          /\ written' \cap SilverFiles = {CalendarPq}]_vars

\* customer processing has failed over a silver customer file of an earlier run
C9_Witness ==
    /\ pc = "exit" /\ exitCode = 1
    /\ CustomersCsv \notin DOMAIN bronze
    /\ written = {CalendarPq}
    /\ CustomersPq \in DOMAIN silver
    /\ Last(out) = Traceback

\* the silver files a view reads, and the views in the order main creates them
ViewOrder == <<"create_sales_summary", "create_customer_insights",
               "create_time_series_analysis">>
Requires(view) ==
    CASE view = "create_sales_summary" -> {SalesPq, ProductsPq}
      [] view = "create_customer_insights" -> {SalesPq, CustomersPq}
      [] view = "create_time_series_analysis" -> {SalesPq, CalendarPq}
GoldFileOf(view) ==
    CASE view = "create_sales_summary" -> SalesSummaryPq
      [] view = "create_customer_insights" -> CustomerInsightsPq
      [] view = "create_time_series_analysis" -> MonthlySalesPq
\* the keys on which a view joins a sales row with a row of its other input
JoinIsEmpty(view) ==
    LET sales == silver[SalesPq]
        other == silver[CHOOSE f \in Requires(view) : f # SalesPq]
        match(l, r) ==
            CASE view = "create_sales_summary" -> l.ProductKey = r.ProductKey
              [] view = "create_customer_insights" -> l.CustomerKey = r.CustomerKey
              [] view = "create_time_series_analysis" -> l.OrderDate = r.Date
    IN  \A i \in 1..Len(sales) : \A j \in 1..Len(other) : ~match(sales[i], other[j])

\* C10: the step that creates a view, when a silver file the view reads is
\* absent, ends the invocation in an error and changes no gold file: the
\* view and the views after it are not written by this invocation, those
\* before it have been; when the files exist and the join has no row, it
\* writes the view as an empty table and raises nothing.
C10_GoldDependencies ==
    [][\A n \in 1..Len(ViewOrder) :
          pc = ViewOrder[n] =>
              IF ~(Requires(ViewOrder[n]) \subseteq DOMAIN silver)
              THEN /\ pc' = "exit" /\ exitCode' = 1
                   /\ gold' = gold
                   /\ written' \cap GoldFiles
                      = {GoldFileOf(ViewOrder[m]) : m \in 1..(n - 1)}
              ELSE JoinIsEmpty(ViewOrder[n]) =>
                      /\ gold'[GoldFileOf(ViewOrder[n])] = <<>>
                      /\ GoldFileOf(ViewOrder[n]) \in written'
                      /\ ~(pc' = "exit" /\ exitCode' = 1)]_vars

\* the second view has failed for want of the silver customer file, the first
\* one stays written
C10_Witness ==
    /\ pc = "exit" /\ exitCode = 1 /\ Last(out) = Traceback
    /\ CustomersPq \notin DOMAIN silver
    /\ SalesPq \in DOMAIN silver
    /\ written = {SalesSummaryPq}

-----------------------------------------------------------------------------
(* Two invocations in a row *)

\* this invocation of all layers has run its three stages, the invocation
\* before it completed all layers too, and the input files are as they were
SecondFullRun ==
    /\ pc = "completed" /\ layers = "all"
    /\ last_run.layers = "all" /\ last_run.run = runs - 1
    /\ last_run.bronze = bronze

\* C11: when the full pipeline has completed and is run again on the same
\* input files, the second run leaves every silver and every gold file with
\* the content the first run left, whatever the directories held before.
C11_Idempotence ==
    SecondFullRun =>
        /\ DOMAIN silver = DOMAIN last_run.silver
        /\ DOMAIN gold = DOMAIN last_run.gold
        /\ \A f \in DOMAIN silver : silver[f] = last_run.silver[f]
        /\ \A f \in DOMAIN gold : gold[f] = last_run.gold[f]

\* a second full run has rewritten the seven files, in directories that
\* held files of an earlier invocation before the first full run
C11_Witness ==
    /\ SecondFullRun
    /\ last_run.run >= 2
    /\ SilverFiles \cup GoldFiles \subseteq written
    /\ silver[SalesPq] # <<>>

-----------------------------------------------------------------------------
(* Inputs of the sales merge: price lists and sales rows over the yearly files *)

\* ProductKey is unique: at most one row per key, the price present or not
PriceTables ==
    LET first == {<<>>} \cup
                 {<<[ProductKey |-> 1, ProductName |-> "Helmet",
                     ModelName |-> "Sport", ProductPrice |-> p]>> : p \in Prices}
        second == {<<>>} \cup
                  {<<[ProductKey |-> 2, ProductName |-> "Gloves",
                      ModelName |-> "Road", ProductPrice |-> p]>> : p \in Prices}
    IN  {a \o c : a \in first, c \in second}

MergedSales ==
    SeqsUpTo({SaleOf(20151231, "SO1", k, 1, q) :
                 k \in ProductKeys, q \in {1, MaxQuantity}}, MaxSalesRows)

\* the rows s cut in three: the yearly files, a file without a row absent
YearlyFiles(s, i, j) ==
    LET part == <<SubSeq(s, 1, i), SubSeq(s, i + 1, j), SubSeq(s, j + 1, Len(s))>>
    IN  [f \in {sales_files[n] : n \in {n \in 1..3 : part[n] # <<>>}} |->
            part[CHOOSE n \in 1..3 : sales_files[n] = f]]

InitMerge ==
    /\ bronze \in {(ProductsCsv :> t) @@ YearlyFiles(s, i, j)
                   @@ Restrict(BaseBronze, {CalendarCsv, CustomersCsv}) :
                       t \in PriceTables,
                       <<s, i, j>> \in {x \in MergedSales \X (0..MaxSalesRows)
                                                \X (0..MaxSalesRows) :
                                            x[2] <= x[3] /\ x[3] <= Len(x[1])}}
    /\ Fresh

SpecMerge == InitMerge /\ [][RunStep]_vars

\* the rows of the yearly files that exist, 2015 first
BronzeSalesRows ==
    LET rows(n) == IF sales_files[n] \in DOMAIN bronze
                   THEN bronze[sales_files[n]] ELSE <<>>
    IN  rows(1) \o rows(2) \o rows(3)

PricedProducts(k) ==
    {j \in 1..Len(bronze[ProductsCsv]) : bronze[ProductsCsv][j].ProductKey = k}

\* C12: the silver sales table written by process_sales_data has one row per
\* row of the merged yearly files, in their order; the row of a ProductKey
\* without a product is kept, with UnitPrice, SalesAmount, TotalProductCost,
\* Profit and ProfitMargin missing, and a row with a product has its price.
C12_LeftJoin ==
    SalesPq \in written =>
        LET t == silver[SalesPq]
            src == BronzeSalesRows
        IN  /\ Len(t) = Len(src)
            /\ \A i \in 1..Len(t) :
                  /\ t[i].OrderNumber = src[i].OrderNumber
                  /\ t[i].OrderDate = src[i].OrderDate
                  /\ t[i].ProductKey = src[i].ProductKey
                  /\ t[i].CustomerKey = src[i].CustomerKey
                  /\ t[i].OrderQuantity = src[i].OrderQuantity
                  /\ IF PricedProducts(src[i].ProductKey) = {}
                     THEN /\ t[i].UnitPrice = NaN /\ t[i].SalesAmount = NaN
                          /\ t[i].TotalProductCost = NaN /\ t[i].Profit = NaN
                          /\ t[i].ProfitMargin = NoMean
                     ELSE \A j \in PricedProducts(src[i].ProductKey) :
                              t[i].UnitPrice = bronze[ProductsCsv][j].ProductPrice

\* two yearly files merged: a row without a product first, kept, then a row
\* with one
C12_Witness ==
    /\ SalesPq \in written
    /\ sales_files[1] \in DOMAIN bronze /\ sales_files[2] \in DOMAIN bronze
    /\ Column(silver[SalesPq], "ProductKey") = <<2, 1>>
    /\ Column(silver[SalesPq], "SalesAmount") = <<NaN, 10>>

\* sum = mean * n, the mean an exact fraction
IsMeanOf(mean, sum, n) == mean # NoMean /\ mean[1] * n = sum * mean[2]

\* C13 (as claimed): in every row of the customer insights and of the monthly
\* sales the sum is the mean times OrderCount.
C13_SumIsMeanTimesCount ==
    /\ CustomerInsightsPq \in written =>
          \A p \in 1..Len(gold[CustomerInsightsPq]) :
              LET r == gold[CustomerInsightsPq][p]
              IN  IsMeanOf(r.AvgOrderValue, r.TotalSpend, r.OrderCount)
    /\ MonthlySalesPq \in written =>
          \A p \in 1..Len(gold[MonthlySalesPq]) :
              LET r == gold[MonthlySalesPq][p]
              IN  IsMeanOf(r.AvgOrderValue, r.MonthlySales, r.OrderCount)

=============================================================================
